---- MODULE Spec2Model ----
(***************************************************************************)
(* The websocket front end of the vaex server                              *)
(* (packages/vaex-server/vaex/server/tornado_server.py): the per-message   *)
(* handler WebSocketHandler.on_message, its progress callback, the tornado *)
(* event loop's callback queue and the worker thread that runs a dataset   *)
(* execution; and of WebServer the start and stop of the server            *)
(* (serve, serve_threaded, mainloop, stop_serving), the replacement of the *)
(* catalog (set_datasets) and the two LRU caches.                          *)
(*                                                                         *)
(* Python values are modelled as strings: None and False are the strings   *)
(* PyNone and PyFalse, which no token of the model equals.  Fractions are  *)
(* integers in percent: 5 stands for 0.05 and 100 for 1.0.                 *)
(***************************************************************************)
EXTENDS Integers, Sequences, FiniteSets, TLC

\* ------------------------------------------------------------------ bounds
MaxMsgs == 2
MaxProgress == 2
MaxExecutes == 1
MaxServes == 2
MaxStops == 2
MaxBudget == 3

\* ----------------------------------------------------------- python values
PyNone == "<None>"
PyFalse == "<False>"
PyTrue == "<True>"

Truthy(v) == v \notin {PyNone, PyFalse, ""}

PyEq(a, b) == IF a = b THEN PyTrue ELSE PyFalse

\* a and b
PyAnd(a, b) == IF Truthy(a) THEN b ELSE a

\* last_progress = None
NoProgress == -1

\* ------------------------------------------------------------------ inputs
Conns == {1, 2}

ServerTokens == {PyNone, "a"}
ServerTrustedTokens == {"", "t"}

\* fractions the execution engine reports, in percent
Fractions == {3, 100}

\* vaex.remote.allowed_method_names (a subset that includes the evaluate method)
allowed_method_names == {"_evaluate_implementation", "count"}

\* the methods the requests name
Methods == {"count", "arbitrary_unsafe_call"}

Auth(t, tt) == ("token" :> t) @@ ("token-trusted" :> tt)

\* the credentials a request carries
Auths == {Auth(PyNone, PyNone), Auth("", ""), Auth("a", PyNone), Auth(PyNone, "t"), Auth("a", "t")}

\* the msg part of a request, by command
MsgList == {[command |-> "list"]}

MsgExecute ==
    {[command |-> "execute", df |-> d, state |-> s, tasks |-> <<"task">>] :
        d \in {"a"}, s \in {"ok", "bad"}}
    \cup {[command |-> "execute", df |-> "x", state |-> "ok", tasks |-> <<"task">>]}

MsgCall ==
    {[command |-> "call-dataframe", df |-> "a", state |-> "ok", method |-> m,
      args |-> <<>>, kwargs |-> <<>>] : m \in Methods}

MsgUnknown == {[command |-> "frobnicate"]}

Msgs == MsgList \cup MsgExecute \cup MsgCall \cup MsgUnknown

\* the credentials tried with every command: all of them, and none
FullAuths == {Auth("a", "t"), Auth(PyNone, PyNone)}

\* the frames a client can send as its message number k: well-formed requests
\* (every credential pair with list, two credential pairs with every command),
\* requests with a key missing, and bytes that do not deserialize
Request(k, m, a) == [decodable |-> TRUE, data |-> [msg_id |-> ToString(k), msg |-> m, auth |-> a]]

WellFormed(k) ==
    {Request(k, m, a) : m \in MsgList, a \in Auths}
    \cup {Request(k, m, a) : m \in Msgs, a \in FullAuths}

Malformed(k) ==
    {[decodable |-> FALSE, data |-> [garbage |-> "x"]],
     [decodable |-> TRUE, data |-> [msg_id |-> ToString(k), msg |-> [command |-> "list"]]],
     [decodable |-> TRUE,
      data |-> [msg_id |-> ToString(k), msg |-> [df |-> "a"], auth |-> Auth("a", "t")]]}

WireMessages(k) == WellFormed(k) \cup Malformed(k)

\* ------------------------------------------------------------------- state
VARIABLES
    token,          \* WebServer.token
    token_trusted,  \* WebServer.token_trusted
    datasets,       \* WebServer.datasets, the names of the catalog (df_map keys)
    conn,           \* per client socket and its handler: "open" or "closed"
    reqs,           \* one record per on_message call: the frame received, the
                    \* handler's locals and position, the worker's position,
                    \* and what the call has written and invoked so far
    callbacks,      \* the event loop's queue of callbacks (ioloop.add_callback)
    nexecute,       \* the number of execute requests the clients have sent
    datasets_map,   \* WebServer.datasets_map, the names it maps
    df_map,         \* service_bare.df_map, the names it maps
    setters,        \* the calls of set_datasets in progress, one per thread
    cache,          \* WebServer.cache and WebServer.cache_selection
    cache_out,      \* how the last operation on a cache ended
    server          \* the listener, the started event, the loop, the worker
                    \* pool and the threads that start and stop the server

\* the state shared by all sockets, apart from the two tokens
shared == <<datasets, datasets_map, df_map, setters, cache, cache_out, server>>

vars == <<token, token_trusted, conn, reqs, callbacks, nexecute, shared>>

\* ------------------------------------------------------------------ errors
\* an exception object: its class, str(e), and the place that raised it
\* (the place stands for the traceback, which is logged and never sent)
Error(class, msg, where) == [class |-> class, msg |-> msg, where |-> where]

NoError == Error("", <<>>, "")

KeyError(k, where) == Error("KeyError", <<"'", k, "'">>, where)

NoResult == [encoding |-> "", value |-> <<>>]

\* an envelope that also carries the place of the error
exceptionWithPlace(e) == [exception |-> [class |-> e.class, msg |-> e.msg \o <<e.where>>]]

\* def exception(exception)
exception(e) == [exception |-> [class |-> e.class, msg |-> e.msg]]

\* ------------------------------------------------------------ the auth gate
\* the gate without the test that the server's trusted token is set
AuthorizedAnyTrusted(rtoken, rtoken_trusted) ==
    \/ rtoken = token
    \/ rtoken_trusted = token_trusted

\* (token == self.webserver.token) or
\*   (self.webserver.token_trusted and token_trusted == self.webserver.token_trusted)
Authorized(rtoken, rtoken_trusted) ==
    \/ rtoken = token
    \/ Truthy(PyAnd(token_trusted, PyEq(rtoken_trusted, token_trusted)))

\* trust taken from the request's token alone, without the comparison
TrustedUnchecked(rtoken_trusted) == rtoken_trusted

\* trusted = token_trusted == self.webserver.token_trusted and token_trusted
Trusted(rtoken_trusted) ==
    PyAnd(PyEq(rtoken_trusted, token_trusted), rtoken_trusted)

\* ----------------------------------------------------- the progress callback
\* (last_progress is None or (f - last_progress) > 0.05 or f == 1.0)
\*   and (last_progress is None or f > last_progress)
Emits(last_progress, f) ==
    /\ (last_progress = NoProgress \/ (f - last_progress) > 5 \/ f = 100)
    /\ (last_progress = NoProgress \/ f > last_progress)

\* self.webserver.ioloop.add_callback(do): callbacks run in the order added
add_callback(q, cb) == Append(q, cb)

\* self.write_json(msg): one frame more on the handler's socket, which is
\* open as long as a call of its handler is not over (see on_close)
write_json(fs, id, m) == Append(fs, [msg_id |-> id, msg |-> m])

\* ------------------------------------------------- service and dataframe
Call(op, args) == [op |-> op, args |-> args]

\* self.service[name]: the catalog lookup
ServiceGetitemRaises(name) ==
    \A i \in 1..Len(df_map) : df_map[i] # name

\* df.state_set(state, use_active_range=True, trusted=trusted)
StateSetRaises(state) == state = "bad"

\* self.service[msg['df']].copy(); df.state_set(msg['state'], ...): the calls
\* made and the error raised, if any
Prepare(msg, trusted) ==
    IF ServiceGetitemRaises(msg.df)
    THEN [calls |-> <<Call("getitem", <<msg.df>>)>>,
          e |-> KeyError(msg.df, "getitem")]
    ELSE IF StateSetRaises(msg.state)
    THEN [calls |-> <<Call("getitem", <<msg.df>>), Call("state_set", <<msg.state, trusted>>)>>,
          e |-> Error("ValueError", <<"cannot apply state">>, "state_set")]
    ELSE [calls |-> <<Call("getitem", <<msg.df>>), Call("state_set", <<msg.state, trusted>>)>>,
          e |-> NoError]

\* ------------------------------------------------------------ the caches
\* self.cache and self.cache_selection
CacheNames == {"cache", "cache_selection"}

\* cache_byte_size and cache_selection_byte_size: zero, a budget that the
\* largest value exceeds, and one that holds it
Budgets == {0, MaxBudget - 1, MaxBudget}

\* sys.getsizeof(value), which is positive for every value
Sizes == 1..MaxBudget

Keys == {"k1", "k2", "k3"}

\* LRUCache(maxsize, getsizeof=sys.getsizeof): the entries with their sizes,
\* the least recently used first
LRUCache(maxsize) == [maxsize |-> maxsize, data |-> <<>>]

RECURSIVE SumSizes(_)
SumSizes(data) == IF data = <<>> THEN 0 ELSE Head(data).size + SumSizes(Tail(data))

\* Cache.currsize
currsize(c) == SumSizes(c.data)

Contains(data, k) == \E i \in 1..Len(data) : data[i].key = k

\* the place of the entry of key k
IndexOf(data, k) == CHOOSE i \in 1..Len(data) : data[i].key = k

\* while self.currsize + size > maxsize: self.popitem(), which removes the
\* least recently used entry
RECURSIVE popitems(_, _, _)
popitems(data, size, maxsize) ==
    IF SumSizes(data) + size > maxsize
    THEN popitems(Tail(data), size, maxsize)
    ELSE data

CacheResult(c, out) == [cache |-> c, out |-> out]

\* cache[key]: a hit makes the entry the most recently used, a miss raises
\* KeyError
getitem(c, k) ==
    IF Contains(c.data, k)
    THEN LET e == c.data[IndexOf(c.data, k)] IN
         CacheResult([c EXCEPT !.data = Append(SelectSeq(@, LAMBDA x : x.key # k), e)], "hit")
    ELSE CacheResult(c, "KeyError")

\* cache[key] = value, with size = getsizeof(value): ValueError('value too
\* large') when the value alone exceeds maxsize; otherwise entries are popped
\* until the value fits and the entry becomes the most recently used
setitem(c, k, size) ==
    IF size > c.maxsize
    THEN CacheResult(c, "ValueError")
    ELSE LET grows == ~Contains(c.data, k) \/ c.data[IndexOf(c.data, k)].size < size
             kept == IF grows THEN popitems(c.data, size, c.maxsize) ELSE c.data IN
         CacheResult([c EXCEPT !.data = Append(SelectSeq(kept, LAMBDA x : x.key # k),
                                                [key |-> k, size |-> size])],
                     "stored")

\* the two caches as WebServer.__init__ makes them
Caches(budget, budget_selection) ==
    [n \in CacheNames |-> LRUCache(IF n = "cache" THEN budget ELSE budget_selection)]

CacheOp(op, n, k, out) == [op |-> op, name |-> n, key |-> k, out |-> out]

NoCacheOp == CacheOp("", "", "", "")

\* ------------------------------------------------------------- on_message
\* what the handler has done when it returns or has called service.execute:
\* the value of msg_id and trusted, the operations invoked, and how the run
\* ends ("raise": into the except clause, "result": a result frame, "yield":
\* service.execute has returned its future, which the handler is to yield)
Out(id, tr, cs, kind, e, res) ==
    [msg_id |-> id, trusted |-> tr, calls |-> cs, kind |-> kind, e |-> e, result |-> res]

Raise(id, tr, cs, e) == Out(id, tr, cs, "raise", e, NoResult)

\* command == 'list'
CommandList(id, tr) ==
    Out(id, tr, <<Call("list", <<>>)>>, "result", NoError,
        [encoding |-> "json", value |-> df_map])

\* command == 'execute', up to the yield
CommandExecute(id, tr, msg) ==
    LET p == Prepare(msg, tr) IN
    IF p.e # NoError
    THEN Raise(id, tr, p.calls, p.e)
    ELSE Out(id, tr, Append(p.calls, Call("execute", <<msg.df>>)), "yield", NoError, NoResult)

\* call-dataframe without the test of the allow-list
CommandCallDataframeUnchecked(id, tr, msg, rmiRaises) ==
    LET p == Prepare(msg, tr) IN
    IF p.e # NoError
    THEN Raise(id, tr, p.calls, p.e)
    ELSE LET cs == Append(p.calls, Call("_rmi", <<msg.df, msg.method>>)) IN
         IF rmiRaises
         THEN Raise(id, tr, cs, Error("RuntimeError", <<"method failed">>, "_rmi"))
         ELSE Out(id, tr, cs, "result", NoError,
                  [encoding |-> "vaex-rmi-result", value |-> <<msg.method>>])

\* command == 'call-dataframe'; rmiRaises: whether the invoked method raises
CommandCallDataframe(id, tr, msg, rmiRaises) ==
    LET p == Prepare(msg, tr) IN
    IF p.e # NoError
    THEN Raise(id, tr, p.calls, p.e)
    ELSE IF msg.method \notin allowed_method_names
    THEN Raise(id, tr, p.calls,
               Error("NotImplementedError", <<"Method is not rmi invokable">>, "allow-list"))
    ELSE LET cs == Append(p.calls, Call("_rmi", <<msg.df, msg.method>>)) IN
         IF rmiRaises
         THEN Raise(id, tr, cs, Error("RuntimeError", <<"method failed">>, "_rmi"))
         ELSE Out(id, tr, cs, "result", NoError,
                  [encoding |-> IF msg.method = "_evaluate_implementation"
                                THEN "vaex-evaluate-result"
                                ELSE "vaex-rmi-result",
                   value |-> <<msg.method>>])

\* the chain with an else branch that does not name the command
DispatchAnonymous(id, tr, msg, rmiRaises) ==
    IF "command" \notin DOMAIN msg
    THEN Raise(id, tr, <<>>, KeyError("command", "command"))
    ELSE IF msg.command = "list" THEN CommandList(id, tr)
    ELSE IF msg.command = "execute" THEN CommandExecute(id, tr, msg)
    ELSE IF msg.command = "call-dataframe" THEN CommandCallDataframe(id, tr, msg, rmiRaises)
    ELSE Raise(id, tr, <<>>, Error("ValueError", <<"Unknown command">>, "command"))

\* command = msg['command'] and the if / elif chain
Dispatch(id, tr, msg, rmiRaises) ==
    IF "command" \notin DOMAIN msg
    THEN Raise(id, tr, <<>>, KeyError("command", "command"))
    ELSE IF msg.command = "list" THEN CommandList(id, tr)
    ELSE IF msg.command = "execute" THEN CommandExecute(id, tr, msg)
    ELSE IF msg.command = "call-dataframe" THEN CommandCallDataframe(id, tr, msg, rmiRaises)
    ELSE Raise(id, tr, <<>>,
               Error("ValueError", <<"Unknown command: ", msg.command>>, "command"))

\* the auth check made after the command has run
CheckAuthLate(id, msg, auth, rmiRaises) ==
    IF "token" \notin DOMAIN auth
    THEN Raise(id, PyFalse, <<>>, KeyError("token", "auth"))
    ELSE IF "token-trusted" \notin DOMAIN auth
    THEN Raise(id, PyFalse, <<>>, KeyError("token-trusted", "auth"))
    ELSE LET rtoken == auth["token"]
             rtoken_trusted == auth["token-trusted"]
             trusted == Trusted(rtoken_trusted)
             d == Dispatch(id, trusted, msg, rmiRaises) IN
         IF ~Authorized(rtoken, rtoken_trusted) /\ d.kind # "yield"
         THEN Raise(id, trusted, d.calls,
                    Error("ValueError", <<"No token provided, not authorized">>, "authorize"))
         ELSE d

\* token = auth['token'] ... raise ValueError('No token provided, not authorized')
CheckAuth(id, msg, auth, rmiRaises) ==
    IF "token" \notin DOMAIN auth
    THEN Raise(id, PyFalse, <<>>, KeyError("token", "auth"))
    ELSE IF "token-trusted" \notin DOMAIN auth
    THEN Raise(id, PyFalse, <<>>, KeyError("token-trusted", "auth"))
    ELSE LET rtoken == auth["token"]
             rtoken_trusted == auth["token-trusted"]
             trusted == Trusted(rtoken_trusted) IN
         IF ~Authorized(rtoken, rtoken_trusted)
         THEN Raise(id, trusted, <<>>,
                    Error("ValueError", <<"No token provided, not authorized">>, "authorize"))
         ELSE Dispatch(id, trusted, msg, rmiRaises)

\* msg_id, msg, auth = websocket_msg['msg_id'], websocket_msg['msg'], websocket_msg['auth']
\* the right-hand side is evaluated before any name is bound
Unpack(d, rmiRaises) ==
    IF "msg_id" \notin DOMAIN d THEN Raise("invalid", PyFalse, <<>>, KeyError("msg_id", "unpack"))
    ELSE IF "msg" \notin DOMAIN d THEN Raise("invalid", PyFalse, <<>>, KeyError("msg", "unpack"))
    ELSE IF "auth" \notin DOMAIN d THEN Raise("invalid", PyFalse, <<>>, KeyError("auth", "unpack"))
    ELSE CheckAuth(d.msg_id, d.msg, d.auth, rmiRaises)

\* msg_id = 'invalid'; websocket_msg = deserialize(websocket_msg, encoding)
Run(wm, rmiRaises) ==
    IF ~wm.decodable
    THEN Raise("invalid", PyFalse, <<>>, Error("ValueError", <<"cannot deserialize">>, "deserialize"))
    ELSE Unpack(wm.data, rmiRaises)

\* the frame that ends a run which does not yield: the result, or in the
\* except clause the error envelope
Terminal(out) ==
    IF out.kind = "raise" THEN exception(out.e) ELSE [result |-> out.result]

\* a call of on_message is over and forgotten once it has returned and the
\* loop holds no callback of it
Over(r) ==
    /\ reqs[r].pc = "done"
    /\ \A i \in 1..Len(callbacks) : callbacks[i].req # r

\* what is remembered of a call that is over: its socket, whether it raised
\* and whether it was refused by the auth gate
Forget(rq) ==
    [pc |-> "gone", conn |-> rq.conn, failed |-> rq.e # NoError,
     refused |-> rq.e.where = "authorize"]

Alive(r) == reqs[r].pc # "gone"

\* the event-loop thread is inside this call of on_message: between the call
\* of service.execute and the yield, or inside service._rmi, which the
\* handler calls without yielding (line 109: TODO: yield)
InHandler(r) == reqs[r].pc \in {"submitted", "rmi"}

\* the event-loop thread is free to run the next callback or handler
LoopIdle == \A r \in 1..Len(reqs) : ~InHandler(r)

\* the run has called self.service._rmi
InvokesRmi(out) == \E i \in 1..Len(out.calls) : out.calls[i].op = "_rmi"

\* where a run of the handler stands when it has made its calls
Stage(out) ==
    IF out.kind = "yield" THEN "submitted"
    ELSE IF InvokesRmi(out) THEN "rmi"
    ELSE "done"

\* the locals and the position of a call of on_message on socket c whose
\* run came to out
Started(c, wm, rmiRaises, out) ==
    [conn |-> c, wm |-> wm, msg_id |-> out.msg_id, trusted |-> out.trusted,
     last_progress |-> NoProgress,
     pc |-> Stage(out),
     e |-> IF Stage(out) = "done" THEN out.e ELSE NoError,
     worker |-> IF out.kind = "yield" THEN "running" ELSE "none",
     raises |-> rmiRaises,
     nfed |-> 0, fed |-> 0,
     calls |-> out.calls,
     frames |-> IF Stage(out) = "done"
                THEN write_json(<<>>, out.msg_id, Terminal(out))
                ELSE <<>>]

\* a handler that stores every frame it receives in self.cache, before any
\* check
on_messageCaching(c, wm, rmiRaises) ==
    /\ conn[c] = "open"
    /\ LoopIdle
    /\ reqs' = Append([r \in 1..Len(reqs) |-> IF Alive(r) /\ Over(r) THEN Forget(reqs[r]) ELSE reqs[r]],
                      Started(c, wm, rmiRaises, Run(wm, rmiRaises)))
    /\ cache' = [cache EXCEPT !["cache"] = setitem(@, "k1", 1).cache]
    /\ UNCHANGED <<token, token_trusted, conn, callbacks,
                   datasets, datasets_map, df_map, setters, cache_out, server>>

\* on_message(websocket_msg) on socket c, up to its return, to the call of
\* service.execute or into the call of service._rmi; the handler reads the
\* tokens of the server and, through the service, the catalog, and assigns
\* to nothing that is shared
on_message(c, wm, rmiRaises) ==
    /\ conn[c] = "open"
    /\ LoopIdle
    /\ reqs' = Append([r \in 1..Len(reqs) |-> IF Alive(r) /\ Over(r) THEN Forget(reqs[r]) ELSE reqs[r]],
                      Started(c, wm, rmiRaises, Run(wm, rmiRaises)))
    /\ UNCHANGED <<token, token_trusted, conn, callbacks, shared>>

\* service._rmi returns or raises, and the handler goes on to its end: the
\* result is encoded and written, or the except clause writes the error
RmiReturn(r) ==
    /\ Alive(r)
    /\ reqs[r].pc = "rmi"
    /\ LET out == Run(reqs[r].wm, reqs[r].raises) IN
       reqs' = [reqs EXCEPT ![r].pc = "done",
                            ![r].e = out.e,
                            ![r].frames = write_json(@, out.msg_id, Terminal(out))]
    /\ UNCHANGED <<token, token_trusted, conn, callbacks, nexecute, shared>>

\* whether the frame is a request with this command
HasCommand(wm, command) ==
    /\ wm.decodable
    /\ "msg" \in DOMAIN wm.data
    /\ "command" \in DOMAIN wm.data.msg
    /\ wm.data.msg.command = command

IsExecute(wm) == HasCommand(wm, "execute")

IsCall(wm) == HasCommand(wm, "call-dataframe")

\* a client sends its next frame (the sockets are numbered in the order in
\* which they are first used)
Receive ==
    /\ Len(reqs) < MaxMsgs
    /\ \E c \in Conns, wm \in WireMessages(Len(reqs) + 1) :
           /\ c = 1 \/ \E r \in 1..Len(reqs) : reqs[r].conn = c - 1
           /\ IsExecute(wm) => nexecute < MaxExecutes
           /\ nexecute' = IF IsExecute(wm) THEN nexecute + 1 ELSE nexecute
           /\ \E rmiRaises \in IF IsCall(wm) THEN BOOLEAN ELSE {FALSE} :
                  on_message(c, wm, rmiRaises)

\* ------------------------------------------------ progress(f) and do()
\* what a call of progress leaves behind, and its return value (return True)
Progress(lp, fs, q) == [last_progress |-> lp, frames |-> fs, callbacks |-> q, returns |-> TRUE]

\* def do(): last_progress = f; self.write_json({'msg_id': msg_id, 'msg': {'progress': f}})
do(r, f, fs, q) ==
    Progress(f, write_json(fs, reqs[r].msg_id, [progress |-> f]), q)

\* def progress(f, from_current_ioloop=False), with last_progress = lp
progress(r, f, from_current_ioloop, lp, fs, q) ==
    IF Emits(lp, f)
    THEN IF from_current_ioloop
         THEN do(r, f, fs, q)
         ELSE Progress(lp, fs, add_callback(q, [kind |-> "do", req |-> r, f |-> f]))
    ELSE Progress(lp, fs, q)

\* ------------------------------------------------------ the worker thread
\* the execution engine, on the worker thread, reports fraction f; it
\* cancels the task when the callback returns a false value
WorkerProgress(r, f) ==
    /\ Alive(r)
    /\ reqs[r].worker = "running"
    /\ reqs[r].nfed < MaxProgress
    /\ f >= reqs[r].fed
    /\ LET p == progress(r, f, FALSE, reqs[r].last_progress, reqs[r].frames, callbacks) IN
       /\ callbacks' = p.callbacks
       /\ reqs' = [reqs EXCEPT ![r].nfed = @ + 1, ![r].fed = f,
                                ![r].worker = IF p.returns THEN "running" ELSE "cancelled"]
    /\ UNCHANGED <<token, token_trusted, conn, nexecute, shared>>

\* the execution ends on the worker thread and the future gets its result
\* (ok) or its exception; a handler that waits for the future is resumed
\* through the event loop (IOLoop.add_future uses add_callback)
WorkerResolve(r, ok) ==
    /\ Alive(r)
    /\ reqs[r].worker \in {"running", "cancelled"}
    /\ reqs[r].worker = "cancelled" => ~ok
    /\ reqs' = [reqs EXCEPT ![r].worker = IF ok THEN "result" ELSE "exception",
                             ![r].nfed = 0, ![r].fed = 0]
    /\ callbacks' = IF reqs[r].pc = "yield"
                    THEN add_callback(callbacks, [kind |-> "resume", req |-> r])
                    ELSE callbacks
    /\ UNCHANGED <<token, token_trusted, conn, nexecute, shared>>

\* --------------------------------------------- on_message after the yield
\* results = yield ...; last_progress = 1; progress(1, from_current_ioloop=True);
\* results = encoding.encode_list(...); self.write_json({... 'result': results})
\* or, when the future holds an exception, the except clause; q is the
\* loop's queue
Resume(r, q) ==
    IF reqs[r].worker = "result"
    THEN LET p == progress(r, 100, TRUE, 100, reqs[r].frames, q) IN
         /\ reqs' = [reqs EXCEPT
                ![r].pc = "done",
                ![r].last_progress = p.last_progress,
                ![r].frames = write_json(p.frames, reqs[r].msg_id,
                                  [result |-> [encoding |-> "vaex-task-result",
                                               value |-> reqs[r].wm.data.msg.tasks]])]
         /\ callbacks' = p.callbacks
    ELSE LET e == Error("RuntimeError", <<"execution failed">>, "execute") IN
         /\ reqs' = [reqs EXCEPT
                ![r].pc = "done",
                ![r].e = e,
                ![r].frames = write_json(@, reqs[r].msg_id, exception(e))]
         /\ callbacks' = q

\* a coroutine that always waits to be resumed, also when the future was
\* done before the yield
YieldAlwaysWaits(r) ==
    /\ Alive(r)
    /\ reqs[r].pc = "submitted"
    /\ reqs' = [reqs EXCEPT ![r].pc = "yield"]
    /\ UNCHANGED callbacks
    /\ UNCHANGED <<token, token_trusted, conn, nexecute, shared>>

\* a handler that waits for the execution to end before it returns to the loop
YieldBlocking(r) ==
    /\ Alive(r)
    /\ reqs[r].pc = "submitted"
    /\ reqs[r].worker # "running"
    /\ Resume(r, callbacks)
    /\ UNCHANGED <<token, token_trusted, conn, nexecute, shared>>

\* the coroutine yields the future: it goes on at once when the future is
\* done already, and otherwise waits to be resumed by the event loop
Yield(r) ==
    /\ Alive(r)
    /\ reqs[r].pc = "submitted"
    /\ IF reqs[r].worker = "running"
       THEN /\ reqs' = [reqs EXCEPT ![r].pc = "yield"]
            /\ UNCHANGED callbacks
       ELSE Resume(r, callbacks)
    /\ UNCHANGED <<token, token_trusted, conn, nexecute, shared>>

\* ----------------------------------------------------------- the event loop
\* the loop runs the callback at the head of its queue: a do() of progress
RunDo ==
    /\ LoopIdle
    /\ callbacks # <<>>
    /\ Head(callbacks).kind = "do"
    /\ LET cb == Head(callbacks)
           p == do(cb.req, cb.f, reqs[cb.req].frames, Tail(callbacks)) IN
       /\ reqs' = [reqs EXCEPT ![cb.req].last_progress = p.last_progress,
                                ![cb.req].frames = p.frames]
       /\ callbacks' = p.callbacks
    /\ UNCHANGED <<token, token_trusted, conn, nexecute, shared>>

\* the loop runs the callback at the head of its queue: a handler goes on
RunResume ==
    /\ LoopIdle
    /\ callbacks # <<>>
    /\ Head(callbacks).kind = "resume"
    /\ Resume(Head(callbacks).req, Tail(callbacks))
    /\ UNCHANGED <<token, token_trusted, conn, nexecute, shared>>

\* ---------------------------------------------------------------- sockets
\* the client goes away: WebSocketHandler.on_close (a client closes its
\* socket when none of its requests is pending)
on_close(c) ==
    /\ conn[c] = "open"
    /\ LoopIdle
    /\ \A r \in 1..Len(reqs) : reqs[r].conn = c /\ Alive(r) => Over(r)
    /\ conn' = [conn EXCEPT ![c] = "closed"]
    /\ UNCHANGED <<token, token_trusted, reqs, callbacks, nexecute, shared>>

\* -------------------------------------------------------------- the catalog
\* the threads that call set_datasets
SetterThreads == {1, 2}

\* the lists of datasets they pass, by name
DatasetLists == {<<"a">>, <<"b">>, <<"a", "b">>, <<"b", "b">>}

\* a thread outside set_datasets
NoSetter == [pc |-> "off", arg |-> <<>>, map |-> <<>>]

NoSetters == [t \in SetterThreads |-> NoSetter]

\* dict([(ds.name, ds) for ds in datasets]): one key per name, in the order
\* of the first occurrence
RECURSIVE dict(_)
dict(ds) ==
    IF ds = <<>> THEN <<>>
    ELSE LET front == dict(SubSeq(ds, 1, Len(ds) - 1))
             last == ds[Len(ds)] IN
         IF \E i \in 1..Len(front) : front[i] = last THEN front ELSE Append(front, last)

\* a step of set_datasets changes the catalog and the caller's position
CatalogStep ==
    UNCHANGED <<token, token_trusted, conn, reqs, callbacks, nexecute,
                cache, cache_out, server>>

\* set_datasets(datasets), line 178: self.datasets = list(datasets)
set_datasets(t, arg) ==
    /\ setters[t].pc = "off"
    /\ datasets' = arg
    /\ setters' = [setters EXCEPT ![t] = [pc |-> "l179", arg |-> arg, map |-> <<>>]]
    /\ UNCHANGED <<datasets_map, df_map>>
    /\ CatalogStep

\* line 179, the right-hand side: the dict is built from self.datasets as it
\* is now
set_datasets_dict(t) ==
    /\ setters[t].pc = "l179"
    /\ setters' = [setters EXCEPT ![t].pc = "l179_store", ![t].map = dict(datasets)]
    /\ UNCHANGED <<datasets, datasets_map, df_map>>
    /\ CatalogStep

\* line 179, the assignment: self.datasets_map = the dict
set_datasets_map(t) ==
    /\ setters[t].pc = "l179_store"
    /\ datasets_map' = setters[t].map
    /\ setters' = [setters EXCEPT ![t].pc = "l180"]
    /\ UNCHANGED <<datasets, df_map>>
    /\ CatalogStep

\* line 180: self.service_bare.df_map = self.datasets_map, and the return
set_datasets_df_map(t) ==
    /\ setters[t].pc = "l180"
    /\ df_map' = datasets_map
    /\ setters' = [setters EXCEPT ![t].pc = "done"]
    /\ UNCHANGED <<datasets, datasets_map>>
    /\ CatalogStep

\* ------------------------------------------------------ use of the caches
\* a step on a cache changes the cache and nothing else
CacheStep(n, k, op, r) ==
    /\ cache' = [cache EXCEPT ![n] = r.cache]
    /\ cache_out' = CacheOp(op, n, k, r.out)
    /\ UNCHANGED <<token, token_trusted, conn, reqs, callbacks, nexecute,
                   datasets, datasets_map, df_map, setters, server>>

\* a lookup of key k in cache n
cache_getitem(n, k) == CacheStep(n, k, "getitem", getitem(cache[n], k))

\* the insertion of a value of the given size under key k in cache n
cache_setitem(n, k, size) == CacheStep(n, k, "setitem", setitem(cache[n], k, size))

\* -------------------------------------------------------- server lifecycle
\* WebServer after __init__: no listener yet (self.server and self.ioloop are
\* set by mainloop), the started event clear, the worker pool of the service
\* up; no thread is in mainloop, serve_threaded or stop_serving
ServerCreated ==
    [has_server |-> FALSE, listening |-> FALSE, started |-> FALSE,
     loop |-> "new", stop_requested |-> FALSE, pool |-> "up",
     main |-> "off", caller |-> "off", stopper |-> "off", closed |-> FALSE,
     stopped |-> FALSE, nserve |-> 0, nstop |-> 0]

\* the server while it serves: serve_threaded has returned and the loop runs
ServerListening ==
    [ServerCreated EXCEPT !.has_server = TRUE, !.listening = TRUE, !.started = TRUE,
                          !.loop = "running", !.main = "in_loop", !.caller = "returned",
                          !.nserve = 1]

\* a step of the lifecycle changes the server and nothing else
ServerStep(new) ==
    /\ server' = new
    /\ UNCHANGED <<token, token_trusted, conn, reqs, callbacks, nexecute,
                   datasets, datasets_map, df_map, setters, cache, cache_out>>

\* no thread is inside mainloop
MainloopFree == server.main \in {"off", "raised", "returned"}

\* serve_threaded up to started.wait(): self.start() starts the thread, whose
\* run() calls mainloop (a thread is started once)
serve_threaded ==
    /\ server.caller = "off"
    /\ MainloopFree
    /\ server.nserve < MaxServes
    /\ ServerStep([server EXCEPT !.caller = "wait", !.main = "enter", !.nserve = @ + 1])

\* self.started.wait(); self.ioloop.make_current(): the caller goes on once
\* the event is set, and serve_threaded returns
serve_threaded_return ==
    /\ server.caller = "wait"
    /\ server.started
    /\ ServerStep([server EXCEPT !.caller = "returned"])

\* serve(): mainloop on the thread of the caller
serve ==
    /\ MainloopFree
    /\ server.caller # "wait"
    /\ server.nserve < MaxServes
    /\ ServerStep([server EXCEPT !.main = "enter", !.nserve = @ + 1])

\* mainloop: self.ioloop = IOLoop.current(); self.server = HTTPServer(...)
mainloop_create ==
    /\ server.main = "enter"
    /\ ServerStep([server EXCEPT !.main = "listen", !.has_server = TRUE])

\* self.server.listen(self.port, self.address): binds and accepts (ok), or
\* raises, for instance when the port is in use
mainloop_listen(ok) ==
    /\ server.main = "listen"
    /\ ServerStep(IF ok THEN [server EXCEPT !.main = "bound", !.listening = TRUE]
                       ELSE [server EXCEPT !.main = "failed"])

\* self.started.set(), after listen returned or in the except clause, which
\* raises again
mainloop_started ==
    /\ server.main \in {"bound", "failed"}
    /\ ServerStep([server EXCEPT !.started = TRUE,
                                 !.main = IF server.main = "bound" THEN "start" ELSE "raised"])

\* self.ioloop.start()
mainloop_start ==
    /\ server.main = "start"
    /\ ServerStep([server EXCEPT !.main = "in_loop", !.loop = "running"])

\* the loop sees that its stop was asked for and ioloop.start() returns
mainloop_exit ==
    /\ server.main = "in_loop"
    /\ server.stop_requested
    /\ ServerStep([server EXCEPT !.main = "returned", !.loop = "stopped",
                                 !.stop_requested = FALSE])

\* stop_serving: self.server.stop(); an AttributeError when mainloop has not
\* yet set self.server
stop_serving_server ==
    /\ server.stopper \in {"off", "returned", "raised"}
    /\ server.nstop < MaxStops
    /\ ServerStep(IF server.has_server
                  THEN [server EXCEPT !.stopper = "ioloop", !.listening = FALSE,
                                      !.closed = server.listening, !.nstop = @ + 1]
                  ELSE [server EXCEPT !.stopper = "raised", !.nstop = @ + 1])

\* stop_serving: self.ioloop.stop()
stop_serving_ioloop ==
    /\ server.stopper = "ioloop"
    /\ ServerStep([server EXCEPT !.stopper = "service", !.stop_requested = TRUE])

\* stop_serving: self.service.stop(), and the return
stop_serving_service ==
    /\ server.stopper = "service"
    /\ ServerStep([server EXCEPT !.stopper = "returned", !.pool = "down",
                                 !.stopped = @ \/ server.closed])

\* ------------------------------------------------------------ specification
\* WebServer.__init__(token=..., token_trusted=..., datasets=[a]), and for
\* each client socket WebSocketHandler.initialize and open
Init ==
    /\ token \in ServerTokens
    /\ token_trusted \in ServerTrustedTokens
    /\ datasets = <<"a">>
    /\ datasets_map = <<"a">>
    /\ df_map = <<"a">>
    /\ conn = [c \in Conns |-> "open"]
    /\ reqs = <<>>
    /\ callbacks = <<>>
    /\ nexecute = 0
    /\ setters = NoSetters
    /\ cache = Caches(MaxBudget, MaxBudget)
    /\ cache_out = NoCacheOp
    /\ server = ServerListening

Next ==
    \/ Receive
    \/ \E r \in 1..Len(reqs) : Yield(r)
    \/ \E r \in 1..Len(reqs) : RmiReturn(r)
    \/ \E r \in 1..Len(reqs), f \in Fractions : WorkerProgress(r, f)
    \/ \E r \in 1..Len(reqs), ok \in BOOLEAN : WorkerResolve(r, ok)
    \/ RunDo
    \/ RunResume
    \/ \E c \in Conns : on_close(c)

Spec == Init /\ [][Next]_vars

\* the runs in which the execution engine reports no progress
NextQuiet ==
    \/ Receive
    \/ \E r \in 1..Len(reqs) : Yield(r)
    \/ \E r \in 1..Len(reqs) : RmiReturn(r)
    \/ \E r \in 1..Len(reqs), ok \in BOOLEAN : WorkerResolve(r, ok)
    \/ RunResume
    \/ \E c \in Conns : on_close(c)

SpecQuiet == Init /\ [][NextQuiet]_vars

\* what the scheduling guarantees: a handler that runs reaches its yield or
\* its end, the loop runs the callbacks of its queue, and (the premise of the
\* completion property) every execution ends
Fairness ==
    /\ \A r \in 1..MaxMsgs : WF_vars(r <= Len(reqs) /\ Yield(r))
    /\ \A r \in 1..MaxMsgs : WF_vars(r <= Len(reqs) /\ RmiReturn(r))
    /\ \A r \in 1..MaxMsgs : WF_vars(r <= Len(reqs) /\ \E ok \in BOOLEAN : WorkerResolve(r, ok))
    /\ WF_vars(RunDo)
    /\ WF_vars(RunResume)

SpecLive == Init /\ [][Next]_vars /\ Fairness

SpecQuietLive == Init /\ [][NextQuiet]_vars /\ Fairness

\* the server from its construction on, without clients
InitServer ==
    /\ token = PyNone
    /\ token_trusted = ""
    /\ datasets = <<"a">>
    /\ datasets_map = <<"a">>
    /\ df_map = <<"a">>
    /\ conn = [c \in Conns |-> "open"]
    /\ reqs = <<>>
    /\ callbacks = <<>>
    /\ nexecute = 0
    /\ setters = NoSetters
    /\ cache = Caches(MaxBudget, MaxBudget)
    /\ cache_out = NoCacheOp
    /\ server = ServerCreated

NextServer ==
    \/ serve_threaded
    \/ serve_threaded_return
    \/ serve
    \/ mainloop_create
    \/ \E ok \in BOOLEAN : mainloop_listen(ok)
    \/ mainloop_started
    \/ mainloop_start
    \/ mainloop_exit
    \/ stop_serving_server
    \/ stop_serving_ioloop
    \/ stop_serving_service

SpecServer == InitServer /\ [][NextServer]_vars

\* the two caches under every pair of budgets, used by the service
InitCache ==
    /\ token = PyNone
    /\ token_trusted = ""
    /\ datasets = <<"a">>
    /\ datasets_map = <<"a">>
    /\ df_map = <<"a">>
    /\ conn = [c \in Conns |-> "open"]
    /\ reqs = <<>>
    /\ callbacks = <<>>
    /\ nexecute = 0
    /\ setters = NoSetters
    /\ \E b \in Budgets, bs \in Budgets : cache = Caches(b, bs)
    /\ cache_out = NoCacheOp
    /\ server = ServerListening

NextCache ==
    \/ \E n \in CacheNames, k \in Keys : cache_getitem(n, k)
    \/ \E n \in CacheNames, k \in Keys, size \in Sizes : cache_setitem(n, k, size)

SpecCache == InitCache /\ [][NextCache]_vars

\* the catalog, replaced by two threads
InitCatalog ==
    /\ token = PyNone
    /\ token_trusted = ""
    /\ datasets = <<"a">>
    /\ datasets_map = <<"a">>
    /\ df_map = <<"a">>
    /\ conn = [c \in Conns |-> "open"]
    /\ reqs = <<>>
    /\ callbacks = <<>>
    /\ nexecute = 0
    /\ setters = NoSetters
    /\ cache = Caches(MaxBudget, MaxBudget)
    /\ cache_out = NoCacheOp
    /\ server = ServerListening

NextCatalog ==
    \/ \E t \in SetterThreads, arg \in DatasetLists : set_datasets(t, arg)
    \/ \E t \in SetterThreads : set_datasets_dict(t)
    \/ \E t \in SetterThreads : set_datasets_map(t)
    \/ \E t \in SetterThreads : set_datasets_df_map(t)

SpecCatalog == InitCatalog /\ [][NextCatalog]_vars

\* ================================================================= claims
Reqs == {r \in 1..Len(reqs) : Alive(r)}

\* the request came with msg_id, msg and auth, and auth with both tokens
HasAuth(r) ==
    /\ reqs[r].wm.decodable
    /\ {"msg_id", "msg", "auth"} \subseteq DOMAIN reqs[r].wm.data
    /\ {"token", "token-trusted"} \subseteq DOMAIN reqs[r].wm.data.auth

RToken(r) == reqs[r].wm.data.auth["token"]

RTokenTrusted(r) == reqs[r].wm.data.auth["token-trusted"]

\* the handler raised the authorization error
Refused(r) ==
    /\ reqs[r].e.where = "authorize"
    /\ reqs[r].e.class = "ValueError"
    /\ reqs[r].e.msg = <<"No token provided, not authorized">>

IsErrorFrame(f) == DOMAIN f.msg = {"exception"}

IsResultFrame(f) == DOMAIN f.msg = {"result"}

IsProgressFrame(f) == DOMAIN f.msg = {"progress"}

Frames(r) == reqs[r].frames

\* the operations of the service or of the dataframe the call invoked
Ops(r) == {reqs[r].calls[i].op : i \in 1..Len(reqs[r].calls)}

\* C1: a request is refused with the authorization error exactly when
\* neither its token equals the server's token nor its trusted token equals
\* the server's trusted token with that token non-empty
C1_AuthorizedIff ==
    \A r \in Reqs : HasAuth(r) =>
        (~Refused(r) <=>
            \/ RToken(r) = token
            \/ (RTokenTrusted(r) = token_trusted /\ token_trusted \notin {PyNone, ""}))

\* C1 witness: a request let in by its trusted token alone
C1_Witness ==
    \E r \in Reqs : HasAuth(r) /\ ~Refused(r) /\ RToken(r) # token /\ reqs[r].calls # <<>>

\* C2: a request that fails the auth check invokes no operation of the
\* service or the dataframe, its only frame is one error envelope, and the
\* step that handles it leaves its socket open
C2_RefusedReachesNothing ==
    /\ [](\A r \in Reqs : Refused(r) =>
            /\ reqs[r].calls = <<>>
            /\ reqs[r].pc = "done"
            /\ Len(Frames(r)) = 1
            /\ IsErrorFrame(Frames(r)[1]))
    /\ [][\A r \in 1..Len(reqs') :
            (r > Len(reqs) /\ reqs'[r].e.where = "authorize")
                => conn' = conn /\ conn'[reqs'[r].conn] = "open"]_vars

\* C2 witness: after a refused request, a later request on the same socket
\* has got its result
C2_Witness ==
    \E r \in 1..Len(reqs), q \in Reqs :
        /\ r < q
        /\ ~Alive(r) /\ reqs[r].refused
        /\ reqs[q].conn = reqs[r].conn
        /\ Len(Frames(q)) = 1 /\ IsResultFrame(Frames(q)[1])

\* C3: _rmi is only ever called with a method of the allow-list, and a
\* call-dataframe request naming another method ends with one error
\* envelope
C3_AllowListEnforced ==
    \A r \in Reqs :
        /\ \A i \in 1..Len(reqs[r].calls) :
               reqs[r].calls[i].op = "_rmi" => reqs[r].calls[i].args[2] \in allowed_method_names
        /\ (IsCall(reqs[r].wm) /\ reqs[r].wm.data.msg.method \notin allowed_method_names) =>
               /\ "_rmi" \notin Ops(r)
               /\ reqs[r].pc = "done"
               /\ Len(Frames(r)) = 1
               /\ IsErrorFrame(Frames(r)[1])

\* C3 witness: an authorized call-dataframe request for a method outside the
\* allow-list has been answered
C3_Witness ==
    \E r \in Reqs :
        /\ IsCall(reqs[r].wm)
        /\ reqs[r].wm.data.msg.method = "arbitrary_unsafe_call"
        /\ reqs[r].e.class = "NotImplementedError"
        /\ "state_set" \in Ops(r)

\* the progress frames of a call, in the order written
ProgressFrames(r) == SelectSeq(Frames(r), IsProgressFrame)

IsTerminalFrame(f) == IsResultFrame(f) \/ IsErrorFrame(f)

\* C4: the result frame of an execute request comes after a progress frame
\* of exactly 1.0 for the same request
C4_FinalProgressBeforeResult ==
    \A r \in Reqs : \A i \in 1..Len(Frames(r)) :
        (IsExecute(reqs[r].wm) /\ IsResultFrame(Frames(r)[i])) =>
            \E j \in 1..i :
                /\ IsProgressFrame(Frames(r)[j])
                /\ Frames(r)[j].msg.progress = 100

\* C5: every frame written for a message that contains a msg_id carries
\* that msg_id
C5_FramesCarryMsgId ==
    \A r \in Reqs :
        (reqs[r].wm.decodable /\ "msg_id" \in DOMAIN reqs[r].wm.data) =>
            \A i \in 1..Len(Frames(r)) : Frames(r)[i].msg_id = reqs[r].wm.data.msg_id

\* C6: the progress frames of a request are strictly increasing
C6_ProgressStrictlyIncreasing ==
    \A r \in Reqs :
        LET p == ProgressFrames(r) IN
        \A i \in 1..(Len(p) - 1) : p[i].msg.progress < p[i + 1].msg.progress

\* C7: every progress frame after the first is 1.0 or exceeds the progress
\* frame written before it by more than 0.05
C7_ProgressThrottled ==
    \A r \in Reqs :
        LET p == ProgressFrames(r) IN
        \A i \in 2..Len(p) :
            \/ p[i].msg.progress = 100
            \/ p[i].msg.progress - p[i - 1].msg.progress > 5

\* C8: a request has at most one terminal frame (result or error), and no
\* progress frame is written after it
C8_TerminalFrameLast ==
    \A r \in Reqs :
        /\ Cardinality({i \in 1..Len(Frames(r)) : IsTerminalFrame(Frames(r)[i])}) <= 1
        /\ \A i, j \in 1..Len(Frames(r)) :
               (i < j /\ IsTerminalFrame(Frames(r)[i])) => ~IsProgressFrame(Frames(r)[j])

\* C9: a call of on_message that raised is over and has written exactly one
\* error envelope, which holds the class name and the message of the error
\* and nothing else, and no result; no step of a handler changes the state of
\* a socket
C9_FailureBoundary ==
    /\ [](\A r \in Reqs : reqs[r].e # NoError =>
            /\ reqs[r].pc = "done"
            /\ Cardinality({i \in 1..Len(Frames(r)) : IsErrorFrame(Frames(r)[i])}) = 1
            /\ \A i \in 1..Len(Frames(r)) :
                   /\ ~IsResultFrame(Frames(r)[i])
                   /\ IsErrorFrame(Frames(r)[i]) =>
                          Frames(r)[i].msg =
                              [exception |-> [class |-> reqs[r].e.class, msg |-> reqs[r].e.msg]])
    /\ [][reqs' # reqs => conn' = conn]_vars

\* C9 witness: after a request that raised behind the auth gate, a request
\* on the same socket for an unknown dataset has been answered
C9_Witness ==
    \E r \in 1..Len(reqs), q \in Reqs :
        /\ r < q
        /\ ~Alive(r) /\ reqs[r].failed /\ ~reqs[r].refused
        /\ reqs[q].conn = reqs[r].conn
        /\ conn[reqs[q].conn] = "open"
        /\ reqs[q].e.where = "getitem"
        /\ Len(Frames(q)) = 1 /\ IsErrorFrame(Frames(q)[1])

\* C10: an authorized request whose command is not list, execute or
\* call-dataframe invokes no operation and is answered by exactly one error
\* envelope, with the request's msg_id and a message that contains the command
C10_UnknownCommand ==
    \A r \in Reqs :
        (/\ HasAuth(r)
         /\ ~Refused(r)
         /\ "command" \in DOMAIN reqs[r].wm.data.msg
         /\ reqs[r].wm.data.msg.command \notin {"list", "execute", "call-dataframe"}) =>
            /\ reqs[r].calls = <<>>
            /\ Len(Frames(r)) = 1
            /\ IsErrorFrame(Frames(r)[1])
            /\ Frames(r)[1].msg_id = reqs[r].wm.data.msg_id
            /\ \E k \in 1..Len(Frames(r)[1].msg.exception.msg) :
                   Frames(r)[1].msg.exception.msg[k] = reqs[r].wm.data.msg.command

\* C10 witness: an authorized request with the command frobnicate has been
\* answered
C10_Witness ==
    \E r \in Reqs :
        /\ HasAuth(r)
        /\ ~Refused(r)
        /\ reqs[r].wm.data.msg = [command |-> "frobnicate"]
        /\ reqs[r].pc = "done"
        /\ Len(Frames(r)) = 1

\* a list request arrives on socket c and is handled
Probe(c) ==
    on_message(c, Request(Len(reqs) + 1, [command |-> "list"], Auth(PyNone, PyNone)), FALSE)

\* C11: a handler that has called service.execute never waits for the worker
\* inside the loop thread (its yield is always possible); while it is suspended
\* at the yield and no other handler runs, a message on any other open socket
\* can be handled; and it leaves the yield only by the loop running the resume
\* callback at the head of its queue, never by a step of the worker
C11_LoopFreeWhileSuspended ==
    /\ [](\A r \in Reqs :
            /\ reqs[r].pc = "submitted" => ENABLED Yield(r)
            /\ (reqs[r].pc = "yield" /\ \A q \in Reqs \ {r} : ~InHandler(q)) =>
                   \A c \in Conns : (c # reqs[r].conn /\ conn[c] = "open") => ENABLED Probe(c))
    /\ [][\A r \in 1..Len(reqs) :
            (reqs[r].pc = "yield" /\ reqs'[r].pc # "yield") =>
                /\ callbacks # <<>>
                /\ Head(callbacks).kind = "resume"
                /\ Head(callbacks).req = r
                /\ callbacks' = Tail(callbacks)]_vars

\* C11 witness: an execute request is suspended, its execution still running,
\* and a later message on another socket has its terminal frame
C11_Witness ==
    \E r \in Reqs, q \in Reqs :
        /\ r < q
        /\ IsExecute(reqs[r].wm)
        /\ reqs[r].pc = "yield"
        /\ reqs[r].worker = "running"
        /\ reqs[q].conn # reqs[r].conn
        /\ reqs[q].pc = "done"
        /\ Len(Frames(q)) = 1
        /\ IsResultFrame(Frames(q)[1])

\* C12: while the method invoked by a call-dataframe request runs, nothing
\* has been written for the request and a message on any other open socket
\* can be handled
C12_RmiOffloaded ==
    \A r \in Reqs : reqs[r].pc = "rmi" =>
        /\ Frames(r) = <<>>
        /\ \A c \in Conns : (c # reqs[r].conn /\ conn[c] = "open") => ENABLED Probe(c)

\* C13: the started event is set only when the listener is bound and accepts,
\* and serve_threaded, when no stop_serving has been called, returns only
\* while the listener accepts
C13_StartedOnlyWhenListening ==
    /\ [][(~server.started /\ server'.started) => server'.listening]_vars
    /\ [][(server.caller = "wait" /\ server'.caller = "returned" /\ server.nstop = 0)
            => server.listening]_vars

\* C14: when a stop_serving that found the server listening returns, the
\* listener does not accept, the stop of the loop is under way or done and
\* the worker pool is down; stop_serving does not raise once the server has
\* been stopped; and once such a stop_serving has returned, the listener
\* never accepts again
C14_StoppedIsTerminal ==
    /\ [][(server.stopper = "service" /\ server'.stopper = "returned" /\ server.closed) =>
            /\ ~server'.listening
            /\ server'.pool = "down"
            /\ (server'.loop # "running" \/ server'.stop_requested)]_vars
    /\ [](server.stopped => server.stopper # "raised")
    /\ [][(server.stopped /\ ~server.listening) => ~server'.listening]_vars

\* the keys of a cache, the least recently used first
KeysOf(data) == [i \in 1..Len(data) |-> data[i].key]

\* t is what is left of s when some of its first elements are dropped
IsSuffix(t, s) ==
    /\ Len(t) <= Len(s)
    /\ \A i \in 1..Len(t) : t[i] = s[Len(s) - Len(t) + i]

\* C17: in each cache the sizes of the stored values sum to at most the
\* budget; an insertion drops the least recently used entries first (what is
\* left of the other entries is the most recently used end of what was
\* there); and with a budget of zero the cache stays empty, every lookup
\* misses and no insertion raises an error
C17_CacheBound ==
    /\ [](\A n \in CacheNames :
            /\ currsize(cache[n]) <= cache[n].maxsize
            /\ cache[n].maxsize = 0 => cache[n].data = <<>>
            /\ (cache_out.name = n /\ cache[n].maxsize = 0) =>
                   /\ cache_out.op = "getitem" => cache_out.out = "KeyError"
                   /\ cache_out.op = "setitem" => cache_out.out = "stored")
    /\ [][\A n \in CacheNames :
            (cache_out'.op = "setitem" /\ cache_out'.name = n /\ cache'[n] # cache[n]) =>
                LET others(d) == SelectSeq(d, LAMBDA x : x.key # cache_out'.key) IN
                IsSuffix(KeysOf(others(cache'[n].data)), KeysOf(others(cache[n].data)))]_vars

\* C15: the step that handles an unauthorized request leaves the three views
\* of the catalog and both caches as they were
C15_RefusedLeavesSharedState ==
    [][\A r \in 1..Len(reqs') :
          (r > Len(reqs) /\ reqs'[r].e.where = "authorize") =>
              /\ datasets' = datasets
              /\ datasets_map' = datasets_map
              /\ df_map' = df_map
              /\ cache' = cache]_vars

\* C15 witness: an unauthorized request has been handled after another
\* unauthorized request on the same socket
C15_Witness ==
    \E r \in 1..Len(reqs), q \in Reqs :
        /\ r < q
        /\ ~Alive(r) /\ reqs[r].refused
        /\ reqs[q].conn = reqs[r].conn
        /\ Refused(q)
        /\ cache = Caches(MaxBudget, MaxBudget)
        /\ df_map = <<"a">>

\* C16: when the server's token is None, a request whose token is None or
\* the empty string is authorized, whatever the trusted tokens are
C16_DefaultOpen ==
    \A r \in Reqs :
        (HasAuth(r) /\ token = PyNone /\ RToken(r) \in {PyNone, ""}) => ~Refused(r)

\* C18: the trusted flag a request passes to state_set is truthy exactly when
\* the request's own token-trusted equals the server's token_trusted and is
\* neither None nor empty
C18_TrustPerMessage ==
    \A r \in Reqs : \A i \in 1..Len(reqs[r].calls) :
        (HasAuth(r) /\ reqs[r].calls[i].op = "state_set") =>
            (Truthy(reqs[r].calls[i].args[2]) <=>
                (RTokenTrusted(r) = token_trusted /\ RTokenTrusted(r) \notin {PyNone, ""}))

\* the trusted flag the request passed to state_set
StateSetTrusted(r) ==
    {reqs[r].calls[i].args[2] : i \in {j \in 1..Len(reqs[r].calls) : reqs[r].calls[j].op = "state_set"}}

\* C18 witness: on one socket, a request let in by the plain token alone has
\* called state_set with a false flag after a request that called it with a
\* true one
C18_Witness ==
    \E r \in Reqs, q \in Reqs :
        /\ r < q
        /\ reqs[q].conn = reqs[r].conn
        /\ \E t \in StateSetTrusted(r) : Truthy(t)
        /\ HasAuth(q)
        /\ RToken(q) = token
        /\ RTokenTrusted(q) # token_trusted
        /\ StateSetTrusted(q) = {PyFalse}

\* C19: at every moment df_map, which the lookups read, is the catalog of
\* the constructor or of one call of set_datasets; and once every call has
\* returned, datasets is the argument of one of the calls and datasets_map
\* and df_map are the catalog of that list
C19_CatalogSynchronized ==
    /\ \/ df_map = <<"a">>
       \/ \E t \in SetterThreads : setters[t].pc # "off" /\ df_map = dict(setters[t].arg)
    /\ ((\A t \in SetterThreads : setters[t].pc \in {"off", "done"})
          /\ (\E t \in SetterThreads : setters[t].pc = "done")) =>
            /\ \E t \in SetterThreads : setters[t].pc = "done" /\ datasets = setters[t].arg
            /\ datasets_map = dict(datasets)
            /\ df_map = dict(datasets)

\* the k-th message has its terminal frame (a call that is forgotten has
\* written it)
Answered(k) ==
    /\ Len(reqs) >= k
    /\ \/ ~Alive(k)
       \/ \E i \in 1..Len(Frames(k)) : IsTerminalFrame(Frames(k)[i])

====
